---- MODULE Spec2Model ----
(***************************************************************************)
(* A model of src/main.py, the Buyee/Mercari crawler:                      *)
(*   main         reads the 'code' sheet (keywords and price ceilings) and *)
(*                the 'list' sheet (rows already recorded), crawls every   *)
(*                keyword, filters and de-duplicates the listings and      *)
(*                inserts the new rows into the 'list' sheet;              *)
(*   crawl_buyee  drives one browser session through the search page, the  *)
(*                results frame, the scroll loop, the selector inference   *)
(*                and the extraction of the items;                         *)
(*   auto_scroll  scrolls until the measured height repeats.               *)
(*                                                                         *)
(* Text is modelled as a sequence of one-character strings, so that strip, *)
(* replace, re.sub and int() are computed and not assumed.  A URL is a     *)
(* sequence of tokens (origin, path, ...); the empty text and the empty    *)
(* URL are both <<>>.  Python's None is <<>> and a present value v is      *)
(* <<v>> wherever a value is optional.  A row keeps the columns the        *)
(* pipeline decides on (code, price, url, date); the title and the image   *)
(* columns are copied through by the code and are left out.                *)
(***************************************************************************)
EXTENDS Integers, Sequences, FiniteSets, TLC

VARIABLES
    \* ---- main
    codes,          \* code_ws.col_values(1)[1:]
    max_raw,        \* code_ws.col_values(2)[1:]
    list_rows,      \* the data rows of the 'list' sheet
    max_map,        \* dict: stripped keyword -> ceiling or None
    existing_urls,  \* set(list_ws.col_values(5)[1:]), extended during the run
    new_rows,       \* rows accumulated for the final insert
    idx,            \* position of the for loop over codes
    results,        \* what crawl_buyee returned for the current keyword
    pc,             \* control point
    cause,          \* exception that ended the run, "" when none
    \* ---- crawl_buyee
    iframe_el,      \* page.query_selector('iframe[name=...]') found an element
    src_attr,       \* its src attribute: <<>> (None) or <<text>>
    iframe_src,     \* the URL line 86 navigates to, <<>> before it is set
    \* ---- auto_scroll
    prev_height,
    new_height,
    \* ---- selector inference
    html,
    selector,
    \* ---- price parsing
    price_text,
    price_num,
    \* ---- history (not program state)
    list0,          \* the 'list' sheet at the start of the run
    crawled,        \* the results of every keyword processed so far
    emitted_at,     \* for each row of new_rows, <<keyword index, item index>>
    inserts,        \* number of list_ws.insert_rows calls
    tried,          \* frame resolution strategies attempted, in order
    heights         \* every height auto_scroll measured, in order

vars == <<codes, max_raw, list_rows, max_map, existing_urls, new_rows, idx,
          results, pc, cause, iframe_el, src_attr, iframe_src, prev_height,
          new_height, html, selector, price_text, price_num, list0, crawled,
          emitted_at, inserts, tried, heights>>

mainVars == <<codes, max_raw, list_rows, max_map, existing_urls, new_rows,
              idx, results, list0, crawled, emitted_at, inserts>>
crawlVars == <<iframe_el, src_attr, iframe_src, tried>>
scrollVars == <<prev_height, new_height, heights>>
selectVars == <<html, selector>>
priceVars == <<price_text, price_num>>

(***************************************************************************)
(* Bounds of the model.                                                    *)
(***************************************************************************)
MaxTasks == 2       \* rows of the 'code' sheet
MaxLinks == 2       \* elements the item selector matches on one page
MaxScrolls == 4     \* iterations of the scroll loop that are explored
MaxHeight == 3      \* measured heights range over 1..MaxHeight
MaxTags == 2        \* tags of the rendered markup
MaxAttrs == 2       \* attributes of one tag
MaxPriceLen == 3    \* characters of a price text

(***************************************************************************)
(* Text helpers.                                                           *)
(***************************************************************************)
None == <<>>
Some(v) == <<v>>

DigitChars == {"0", "1", "2", "3", "4", "5", "6", "7", "8", "9"}

\* the value of one decimal digit character
DigitVal(c) ==
    CASE c = "0" -> 0 [] c = "1" -> 1 [] c = "2" -> 2 [] c = "3" -> 3
      [] c = "4" -> 4 [] c = "5" -> 5 [] c = "6" -> 6 [] c = "7" -> 7
      [] c = "8" -> 8 [] c = "9" -> 9

IsDigit(c) == c \in DigitChars
IsSpace(c) == c = " "

RECURSIVE DigitsToInt(_)
\* int() of a text made of digits only: base 10, most significant first
DigitsToInt(s) ==
    IF s = <<>> THEN 0
    ELSE DigitsToInt(SubSeq(s, 1, Len(s) - 1)) * 10 + DigitVal(s[Len(s)])

RECURSIVE LStrip(_)
LStrip(s) == IF s # <<>> /\ IsSpace(Head(s)) THEN LStrip(Tail(s)) ELSE s

RECURSIVE RStrip(_)
RStrip(s) ==
    IF s # <<>> /\ IsSpace(s[Len(s)]) THEN RStrip(SubSeq(s, 1, Len(s) - 1))
    ELSE s

\* str.strip()
Strip(s) == RStrip(LStrip(s))

\* raw.replace(",", "")
RemoveCommas(s) == SelectSeq(s, LAMBDA c : c # ",")

\* re.sub(r"[^\d]", "", s)
KeepDigits(s) == SelectSeq(s, IsDigit)

\* int(s) succeeds: over the characters of the model (digits, blanks, commas,
\* currency signs and letters; no sign, no underscore) int accepts exactly the
\* non-empty digit texts, blanks around them included
IntAccepts(s) == Strip(s) # <<>> /\ \A i \in DOMAIN Strip(s) : IsDigit(Strip(s)[i])
IntOf(s) == DigitsToInt(Strip(s))

(***************************************************************************)
(* Inputs the model draws from.                                            *)
(***************************************************************************)
Origin == "https://buyee.jp"
ResultsHost == "https://asf.buyee.jp"

\* a URL token that starts with "http" (the others are paths, "/item/1")
IsOriginToken(t) == t \in {Origin, ResultsHost}

Keywords == {<<"a">>, <<" ", "a">>, <<"b">>}
CeilTexts == {<<>>, <<" ", "2", ",">>}
Hrefs == {<<"/item/1">>, <<Origin, "/item/2">>}
PriceTexts == {<<>>, <<"¥", "2">>, <<"3">>, <<"¥">>}
LinkElems == [sold : BOOLEAN, href : Hrefs, price : PriceTexts]

SeqsUpTo(S, n) == UNION {[1..k -> S] : k \in 0..n}

\* the 'list' sheet as earlier runs left it: sorted by date, newest first
OldListing == [code |-> <<"a">>, price |-> <<"3">>, url |-> <<Origin, "/item/1">>, date |-> 0]
OldSentinel == [code |-> <<"b">>, price |-> <<>>, url |-> <<>>, date |-> 0]
OldSheets == {<<>>, <<OldListing>>, <<OldListing, OldSentinel>>}

(***************************************************************************)
(* main: the ceiling map (lines 145-152).                                  *)
(***************************************************************************)
\* lines 148-152: one ceiling cell; a malformed number is "no ceiling"
ParseCeiling(raw) ==
    LET mp_clean == Strip(RemoveCommas(raw)) IN
    IF mp_clean = <<>> THEN None
    ELSE IF IntAccepts(mp_clean) THEN Some(IntOf(mp_clean))
    ELSE None

\* line 150: the key a ceiling is stored under
MaxMapKey(code) == Strip(code)

Min(a, b) == IF a <= b THEN a ELSE b

RECURSIVE BuildMaxMap(_, _, _)
\* lines 146-152: the dict after the first n pairs of zip(codes, max_raw);
\* a later pair with the same key overwrites an earlier one
BuildMaxMap(cs, raws, n) ==
    IF n = 0 THEN [k \in {} |-> None]
    ELSE LET prev == BuildMaxMap(cs, raws, n - 1)
             key == MaxMapKey(cs[n])
         IN [k \in DOMAIN prev \cup {key} |->
                IF k = key THEN ParseCeiling(raws[n]) ELSE prev[k]]

\* line 158: max_map.get(kw)
Limit(mm, kw) == IF kw \in DOMAIN mm THEN mm[kw] ELSE None

\* the existing urls are never read
ExistingUrls_Empty(rows) == {}

\* line 154: set(list_ws.col_values(5)[1:])
ExistingUrls(rows) == {rows[i].url : i \in DOMAIN rows}

(***************************************************************************)
(* crawl_buyee: frame URL and item extraction.                             *)
(***************************************************************************)
\* lines 79-83
FallbackUrl(kw) ==
    <<ResultsHost, "/mercari?keyword=">> \o kw \o
    <<"&conversionType=Mercari_DirectSearch", "&currencyCode=KRW", "&myee=0",
      "&languageCode=en", "&lang=en">>

\* a src attribute value the results iframe may carry
FrameUrl == <<ResultsHost, "/mercari?keyword=k">>
SrcAttrs == {None, Some(<<>>), Some(FrameUrl)}

\* line 78: not iframe_src (None and "" are both falsy)
Falsy(opt) == opt = None \/ opt = Some(<<>>)

\* an empty src attribute is taken for a URL
ResolveFrameUrl_EmptySrcUsed(el, src, kw) ==
    IF el /\ src # None THEN src[1] ELSE FallbackUrl(kw)

\* lines 76-83: the URL line 86 navigates to
ResolveFrameUrl(el, src, kw) ==
    LET got == IF el THEN src ELSE None IN
    IF Falsy(got) THEN FallbackUrl(kw) ELSE got[1]

\* the strategies lines 76-83 go through, in order
StrategiesTried(el, src) ==
    LET got == IF el THEN src ELSE None IN
    IF Falsy(got) THEN <<"iframe_src_attr", "fallback_url">>
    ELSE <<"iframe_src_attr">>

\* line 133: href.startswith("http")
StartsWithHttp(href) == href # <<>> /\ IsOriginToken(Head(href))

\* line 133
Absolutize(href) == IF StartsWithHttp(href) THEN href ELSE <<Origin>> \o href

RECURSIVE ExtractItems(_, _, _)
\* lines 117-135: sold-out links are skipped, the others become items
ExtractItems(links, kw, now) ==
    IF links = <<>> THEN <<>>
    ELSE LET l == Head(links)
             rest == ExtractItems(Tail(links), kw, now)
         IN IF l.sold THEN rest
            ELSE <<[code |-> kw, price |-> Strip(l.price),
                    url |-> Absolutize(l.href), date |-> now]>> \o rest

\* datetime.now(): one tick per keyword (every crawl sleeps at least a second
\* in auto_scroll); rows of earlier runs carry date 0
Now(i) == i

(***************************************************************************)
(* main: the result pipeline (lines 162-181).                              *)
(***************************************************************************)
\* line 171: int("") raises ValueError when a non-empty text has no digit
PriceRaises(price) == price # <<>> /\ KeepDigits(price) = <<>>

\* line 171
PriceNum(price) == IF price = <<>> THEN 0 ELSE DigitsToInt(KeepDigits(price))

\* line 172
OverLimit(limit, num) == limit # None /\ num > limit[1]

\* the duplicate test is skipped
AlreadyKnown_Never(url, urls) == FALSE

\* line 174
AlreadyKnown(url, urls) == url \in urls

\* a sentinel for every keyword without listings
SentinelAllowed_Always(urls) == TRUE

\* line 163
SentinelAllowed(urls) == <<>> \notin urls

\* lines 164-167
SentinelRow(kw, now) == [code |-> kw, price |-> <<>>, url |-> <<>>, date |-> now]

\* lines 177-180
RowOf(it) == [code |-> it.code, price |-> it.price, url |-> it.url, date |-> it.date]

RECURSIVE ProcessItems(_, _, _, _, _)
\* lines 170-181 from item j on; st = [rows, urls, at, err]
ProcessItems(items, j, limit, i, st) ==
    IF j > Len(items) THEN st
    ELSE LET it == items[j] IN
         IF PriceRaises(it.price) THEN [st EXCEPT !.err = TRUE]
         ELSE IF OverLimit(limit, PriceNum(it.price))
              THEN ProcessItems(items, j + 1, limit, i, st)
         ELSE IF AlreadyKnown(it.url, st.urls)
              THEN ProcessItems(items, j + 1, limit, i, st)
         ELSE ProcessItems(items, j + 1, limit, i,
                  [st EXCEPT !.rows = Append(@, RowOf(it)),
                             !.urls = @ \cup {it.url},
                             !.at = Append(@, <<i, j>>)])

\* lines 162-181 for one keyword
ProcessResults(res, kw, limit, i, st) ==
    IF res = <<>>
    THEN IF SentinelAllowed(st.urls)
         THEN [st EXCEPT !.rows = Append(@, SentinelRow(kw, Now(i))),
                         !.urls = @ \cup {<<>>},
                         !.at = Append(@, <<i, 0>>)]
         ELSE st
    ELSE ProcessItems(res, 1, limit, i, st)

RECURSIVE InsertDesc(_, _)
\* r goes before the first row that is not newer than it
InsertDesc(r, sorted) ==
    IF sorted = <<>> THEN <<r>>
    ELSE IF Head(sorted).date <= r.date THEN <<r>> \o sorted
    ELSE <<Head(sorted)>> \o InsertDesc(r, Tail(sorted))

RECURSIVE SortDesc(_)
\* line 187: list_ws.sort((6, "des")), a stable sort on the date column
SortDesc(rows) ==
    IF rows = <<>> THEN <<>> ELSE InsertDesc(Head(rows), SortDesc(Tail(rows)))

\* line 186: insert_rows(new_rows, row=2): right below the header
InsertRows(rows, sheet) == rows \o sheet

\* the rows are inserted and the sheet is left unsorted
FlushSheet_NoSort(rows, sheet) ==
    IF rows # <<>> THEN InsertRows(rows, sheet) ELSE sheet

\* lines 185-187
FlushSheet(rows, sheet) ==
    IF rows # <<>> THEN SortDesc(InsertRows(rows, sheet)) ELSE sheet

(***************************************************************************)
(* Spec: one run of main, with crawl_buyee stepped through for each        *)
(* keyword.  The scroll loop, the selector inference and the price parser  *)
(* have specifications of their own below.                                 *)
(***************************************************************************)
TaskRows == Keywords \X CeilTexts

scrollIdle == prev_height = 0 /\ new_height = 0 /\ heights = <<>>
selectIdle == html = <<>> /\ selector = <<>>
priceIdle == price_text = <<>> /\ price_num = 0

Init ==
    /\ \E tasks \in SeqsUpTo(TaskRows, MaxTasks) :
          /\ codes = [i \in DOMAIN tasks |-> tasks[i][1]]
          /\ max_raw = [i \in DOMAIN tasks |-> tasks[i][2]]
    /\ list_rows \in OldSheets
    /\ list0 = list_rows
    /\ max_map = [k \in {} |-> None]
    /\ existing_urls = {}
    /\ new_rows = <<>>
    /\ idx = 0
    /\ results = <<>>
    /\ pc = "start"
    /\ cause = ""
    /\ iframe_el = FALSE /\ src_attr = None /\ iframe_src = <<>> /\ tried = <<>>
    /\ crawled = <<>> /\ emitted_at = <<>> /\ inserts = 0
    /\ scrollIdle /\ selectIdle /\ priceIdle

\* an exception nothing catches: it leaves crawl_buyee, main and asyncio.run
Raise(exc) ==
    /\ pc' = "aborted"
    /\ cause' = exc

\* lines 141-155
LoadSheets ==
    /\ pc = "start"
    /\ max_map' = BuildMaxMap(codes, max_raw, Min(Len(codes), Len(max_raw)))
    /\ existing_urls' = ExistingUrls(list_rows)
    /\ new_rows' = <<>>
    /\ idx' = 1
    /\ pc' = "loop"
    /\ UNCHANGED <<codes, max_raw, list_rows, results, cause, list0, crawled,
                   emitted_at, inserts, crawlVars, scrollVars, selectVars,
                   priceVars>>

\* lines 157-160 and 50-70: the next keyword, a fresh browser and page
CrawlLaunch ==
    /\ pc = "loop"
    /\ idx <= Len(codes)
    /\ iframe_el' = FALSE /\ src_attr' = None /\ iframe_src' = <<>> /\ tried' = <<>>
    /\ \/ pc' = "goto_search" /\ cause' = cause
       \/ Raise("LaunchError")
    /\ UNCHANGED <<mainVars, scrollVars, selectVars, priceVars>>

\* lines 73-77: the search page loads, or its 60 s timeout expires
CrawlGotoSearch ==
    /\ pc = "goto_search"
    /\ \/ /\ \E el \in BOOLEAN, src \in SrcAttrs :
                /\ iframe_el' = el
                /\ src_attr' = IF el THEN src ELSE None
          /\ pc' = "resolve" /\ cause' = cause
       \/ /\ Raise("TimeoutError")
          /\ UNCHANGED <<iframe_el, src_attr>>
    /\ UNCHANGED <<mainVars, iframe_src, tried, scrollVars, selectVars, priceVars>>

\* lines 76-83
CrawlResolveFrame ==
    /\ pc = "resolve"
    /\ iframe_src' = ResolveFrameUrl(iframe_el, src_attr, codes[idx])
    /\ tried' = StrategiesTried(iframe_el, src_attr)
    /\ pc' = "goto_frame"
    /\ UNCHANGED <<mainVars, cause, iframe_el, src_attr, scrollVars, selectVars,
                   priceVars>>

\* line 86: the results page loads, or its 60 s timeout expires
CrawlGotoFrame ==
    /\ pc = "goto_frame"
    /\ \/ pc' = "scroll" /\ cause' = cause
       \/ Raise("TimeoutError")
    /\ UNCHANGED <<mainVars, crawlVars, scrollVars, selectVars, priceVars>>

\* line 87: auto_scroll returns (SpecScroll steps through its loop)
CrawlAutoScroll ==
    /\ pc = "scroll"
    /\ pc' = "select"
    /\ UNCHANGED <<mainVars, cause, crawlVars, scrollVars, selectVars, priceVars>>

\* lines 98-114: the selector is inferred (SpecSelect) and waited for; with no
\* matching element wait_for_selector raises after 60 s
CrawlWaitSelector ==
    /\ pc = "select"
    /\ \/ pc' = "extract" /\ cause' = cause
       \/ Raise("TimeoutError")
    /\ UNCHANGED <<mainVars, crawlVars, scrollVars, selectVars, priceVars>>

\* lines 115-138: at least one element matched, or line 114 had raised; the
\* browser is closed and the page with it
CrawlExtract ==
    /\ pc = "extract"
    /\ \E links \in SeqsUpTo(LinkElems, MaxLinks) :
          /\ links # <<>>
          /\ results' = ExtractItems(links, codes[idx], Now(idx))
    /\ pc' = "process"
    /\ iframe_el' = FALSE /\ src_attr' = None /\ iframe_src' = <<>> /\ tried' = <<>>
    /\ UNCHANGED <<codes, max_raw, list_rows, max_map, existing_urls, new_rows,
                   idx, cause, list0, crawled, emitted_at, inserts, scrollVars,
                   selectVars, priceVars>>

\* lines 162-183: the sentinel or the filter loop, for the keyword just crawled
Process ==
    /\ pc = "process"
    /\ LET st == ProcessResults(results, codes[idx], Limit(max_map, codes[idx]), idx,
                     [rows |-> new_rows, urls |-> existing_urls,
                      at |-> emitted_at, err |-> FALSE])
       IN /\ new_rows' = st.rows
          /\ existing_urls' = st.urls
          /\ emitted_at' = st.at
          /\ IF st.err
             THEN Raise("ValueError") /\ idx' = idx
             ELSE pc' = "loop" /\ cause' = cause /\ idx' = idx + 1
    /\ crawled' = Append(crawled, results)
    /\ UNCHANGED <<codes, max_raw, list_rows, max_map, results, list0, inserts,
                   crawlVars, scrollVars, selectVars, priceVars>>

\* lines 185-187: after the last keyword
Flush ==
    /\ pc = "loop"
    /\ idx > Len(codes)
    /\ list_rows' = FlushSheet(new_rows, list_rows)
    /\ inserts' = IF new_rows # <<>> THEN inserts + 1 ELSE inserts
    /\ pc' = "done"
    /\ UNCHANGED <<codes, max_raw, max_map, existing_urls, new_rows, idx, results,
                   cause, list0, crawled, emitted_at, crawlVars, scrollVars,
                   selectVars, priceVars>>

Next ==
    \/ LoadSheets
    \/ CrawlLaunch
    \/ CrawlGotoSearch
    \/ CrawlResolveFrame
    \/ CrawlGotoFrame
    \/ CrawlAutoScroll
    \/ CrawlWaitSelector
    \/ CrawlExtract
    \/ Process
    \/ Flush

Spec == Init /\ [][Next]_vars

(***************************************************************************)
(* Vocabulary of the properties of Spec.                                   *)
(***************************************************************************)
\* the urls recorded in the sheet when the run began
Existing0 == {list0[n].url : n \in DOMAIN list0}
RowUrls == {new_rows[k].url : k \in DOMAIN new_rows}
IsListingRow(k) == emitted_at[k][2] > 0
SentinelRows == {k \in DOMAIN new_rows : new_rows[k].url = <<>>}

\* every <<keyword index, item index>> of the crawls processed so far
Occurrences == {<<i, j>> \in (1..MaxTasks + 1) \X (1..MaxLinks + 1) :
                    i \in DOMAIN crawled /\ j \in DOMAIN crawled[i]}
Before(p, q) == p[1] < q[1] \/ (p[1] = q[1] /\ p[2] < q[2])
ItemAt(p) == crawled[p[1]][p[2]]

\* the ceiling written in the keyword's own row of the 'code' sheet
OwnCeiling(i) == ParseCeiling(max_raw[i])
\* the ceiling the loop applies to the keyword
UsedCeiling(i) == Limit(max_map, codes[i])

\* C1: no listing priced above the ceiling of its keyword's own input row is
\* appended to new_rows, and under a row without ceiling no listing is dropped
\* for its price.
C1_OwnCeilingRespected ==
    /\ \A k \in DOMAIN new_rows :
          IsListingRow(k) =>
             ~OverLimit(OwnCeiling(emitted_at[k][1]), PriceNum(new_rows[k].price))
    /\ cause = "" =>
          \A p \in Occurrences :
             OwnCeiling(p[1]) = None => ItemAt(p).url \in Existing0 \cup RowUrls

\* C2 as amended: no row of new_rows has a url of the initial existing set, no
\* two rows share a url, and of the occurrences of one url the row emitted is
\* the first one that passes the price filter of the keyword it came with.
C2_DedupFirstPassing ==
    /\ \A k \in DOMAIN new_rows : new_rows[k].url \notin Existing0
    /\ \A k, l \in DOMAIN new_rows : k # l => new_rows[k].url # new_rows[l].url
    /\ \A k \in DOMAIN new_rows :
          IsListingRow(k) =>
             /\ emitted_at[k] \in Occurrences
             /\ new_rows[k] = ItemAt(emitted_at[k])
             /\ \A q \in Occurrences :
                   (Before(q, emitted_at[k]) /\ ItemAt(q).url = new_rows[k].url)
                      => OverLimit(UsedCeiling(q[1]), PriceNum(ItemAt(q).price))
    /\ cause = "" =>
          \A p \in Occurrences :
             ~OverLimit(UsedCeiling(p[1]), PriceNum(ItemAt(p).price))
                => ItemAt(p).url \in Existing0 \cup RowUrls

\* C2 as stated: ... only the first occurrence processed is emitted.
C2_FirstOccurrenceOnly ==
    /\ \A k \in DOMAIN new_rows : new_rows[k].url \notin Existing0
    /\ \A k, l \in DOMAIN new_rows : k # l => new_rows[k].url # new_rows[l].url
    /\ \A k \in DOMAIN new_rows :
          IsListingRow(k) =>
             \A q \in Occurrences :
                Before(q, emitted_at[k]) => ItemAt(q).url # new_rows[k].url

\* the same url came back for the first and for the second keyword, and one
\* row carries it
C2_Witness ==
    /\ pc = "done"
    /\ Len(crawled) = 2
    /\ \E j1 \in DOMAIN crawled[1], j2 \in DOMAIN crawled[2] :
          /\ crawled[1][j1].url = crawled[2][j2].url
          /\ crawled[1][j1].url \in RowUrls

\* C3: a navigation or wait timeout while crawling a keyword never ends the
\* run: the keyword counts as having no listings and the loop goes on.
C3_SoftFailureAbsorbed == ~(pc = "aborted" /\ cause = "TimeoutError")

\* C5: at most one empty-url row is appended per run; it is appended for a
\* keyword whose crawl returned nothing, only while the empty url is unknown,
\* and the first such keyword appends it and records the empty url.
C5_SentinelUnique ==
    /\ Cardinality(SentinelRows) <= 1
    /\ \A k \in DOMAIN new_rows : IsListingRow(k) <=> k \notin SentinelRows
    /\ \A k \in SentinelRows :
          /\ emitted_at[k][1] \in DOMAIN crawled
          /\ crawled[emitted_at[k][1]] = <<>>
          /\ new_rows[k].code = codes[emitted_at[k][1]]
          /\ <<>> \notin Existing0
          /\ \A i \in 1..(emitted_at[k][1] - 1) : crawled[i] # <<>>
    /\ (<<>> \notin Existing0 /\ \E i \in DOMAIN crawled : crawled[i] = <<>>)
          => (Cardinality(SentinelRows) = 1 /\ <<>> \in existing_urls)
    /\ <<>> \in Existing0 => SentinelRows = {}

\* two keywords returned nothing and one sentinel row stands for both
C5_Witness ==
    /\ pc = "done"
    /\ Len(crawled) = 2
    /\ crawled[1] = <<>> /\ crawled[2] = <<>>
    /\ Cardinality(SentinelRows) = 1

AllCrawledKnown ==
    \A p \in Occurrences : ItemAt(p).url \in Existing0

\* C7 as amended: when the initial existing set holds the url of every listing
\* the crawls return, no listing row is appended; new_rows holds at most the
\* one sentinel row of a keyword without listings, and it is empty, with no
\* insert, when the empty url is known too or every crawl returned listings.
C7_NoListingRowAgain ==
    AllCrawledKnown =>
       /\ \A k \in DOMAIN new_rows : ~IsListingRow(k)
       /\ Len(new_rows) <= 1
       /\ (<<>> \in Existing0 \/ \A i \in DOMAIN crawled : crawled[i] # <<>>)
             => (new_rows = <<>> /\ inserts = 0)

\* C7 as stated: ... the run appends zero rows and performs no insert.
C7_ZeroRows ==
    AllCrawledKnown => (new_rows = <<>> /\ inserts = 0)

\* a finished run whose crawls returned listings, all of them known
C7_Witness ==
    /\ pc = "done"
    /\ Occurrences # {}
    /\ AllCrawledKnown
    /\ new_rows = <<>>
    /\ list_rows = list0

\* C9 as stated: the fallback URL is navigated to only after the iframe src
\* attribute, the frame lookup by name and the scan of the attached frames
\* have been tried, in that order, and failed.
C9_FallbackAfterThree ==
    "fallback_url" \in {tried[n] : n \in DOMAIN tried} =>
       tried = <<"iframe_src_attr", "frame_by_name", "frame_url_scan", "fallback_url">>

Resolved == pc \in {"goto_frame", "scroll", "select", "extract"}

\* C9 as amended: resolution has two strategies, tried in order: the src
\* attribute of the iframe named search_result_iframe, then the fallback URL
\* built from the keyword and the fixed query parameters; the fallback is
\* used exactly when the first yields no non-empty src, and nothing is tried
\* after the first succeeded.
C9_SrcThenFallback ==
    Resolved =>
       /\ tried \in {<<"iframe_src_attr">>, <<"iframe_src_attr", "fallback_url">>}
       /\ tried = <<"iframe_src_attr">> <=> (iframe_el /\ src_attr \notin {None, Some(<<>>)})
       /\ tried = <<"iframe_src_attr">> => iframe_src = src_attr[1]
       /\ tried # <<"iframe_src_attr">> =>
             /\ Len(iframe_src) >= 2 + Len(codes[idx])
             /\ Head(iframe_src) = ResultsHost
             /\ SubSeq(iframe_src, 3, 2 + Len(codes[idx])) = codes[idx]
             /\ {"&conversionType=Mercari_DirectSearch", "&currencyCode=KRW",
                 "&languageCode=en"} \subseteq {iframe_src[n] : n \in DOMAIN iframe_src}

\* the iframe is there but carries no src: the fallback URL is used
C9_Witness ==
    /\ pc = "goto_frame"
    /\ iframe_el
    /\ src_attr = None
    /\ tried = <<"iframe_src_attr", "fallback_url">>

Count(rows, r) == Cardinality({n \in DOMAIN rows : rows[n] = r})
SameRows(a, b) ==
    \A r \in {a[n] : n \in DOMAIN a} \cup {b[n] : n \in DOMAIN b} :
       Count(a, r) = Count(b, r)
IsSortedDesc(rows) ==
    \A m, n \in DOMAIN rows : m < n => rows[m].date >= rows[n].date

\* C10: the sheet is untouched until every keyword has been crawled and
\* processed; the accumulated rows are then inserted in one call and the sheet
\* is sorted by date, newest first; a run that aborts leaves the sheet as it
\* was.
C10_WrittenOnceAtEnd ==
    /\ pc # "done" => (list_rows = list0 /\ inserts = 0)
    /\ pc = "done" =>
          /\ Len(crawled) = Len(codes)
          /\ idx = Len(codes) + 1
          /\ inserts = (IF new_rows = <<>> THEN 0 ELSE 1)
          /\ new_rows = <<>> => list_rows = list0
          /\ SameRows(list_rows, new_rows \o list0)
          /\ IsSortedDesc(list_rows)

\* rows of two keywords were accumulated oldest first and inserted above rows
\* of an earlier run
C10_Witness ==
    /\ pc = "done"
    /\ list0 # <<>>
    /\ inserts = 1
    /\ \E m, n \in DOMAIN new_rows : m < n /\ new_rows[m].date < new_rows[n].date

(***************************************************************************)
(* SpecScroll: auto_scroll (lines 28-39), one measurement per step.        *)
(***************************************************************************)
Heights == 1..MaxHeight

mainIdle ==
    /\ codes = <<>> /\ max_raw = <<>> /\ list_rows = <<>> /\ list0 = <<>>
    /\ max_map = [k \in {} |-> None] /\ existing_urls = {} /\ new_rows = <<>>
    /\ idx = 0 /\ results = <<>> /\ cause = ""
    /\ crawled = <<>> /\ emitted_at = <<>> /\ inserts = 0
crawlIdle ==
    iframe_el = FALSE /\ src_attr = None /\ iframe_src = <<>> /\ tried = <<>>

\* the loop ends as soon as the height does not grow
ScrollStops_NotGreater(new, prev) == new <= prev

\* line 37: the test that ends the loop
ScrollStops(new, prev) == new = prev

InitScroll ==
    /\ pc = "scroll_start"
    /\ mainIdle /\ crawlIdle /\ scrollIdle /\ selectIdle /\ priceIdle

\* line 32
ScrollMeasure ==
    /\ pc = "scroll_start"
    /\ \E h \in Heights :
          /\ prev_height' = h
          /\ heights' = <<h>>
    /\ pc' = "scroll_loop"
    /\ UNCHANGED <<new_height, mainVars, cause, crawlVars, selectVars, priceVars>>

\* lines 34-39: scroll to the bottom, sleep, measure again, compare
ScrollIterate ==
    /\ pc = "scroll_loop"
    /\ Len(heights) <= MaxScrolls
    /\ \E h \in Heights :
          /\ new_height' = h
          /\ heights' = Append(heights, h)
          /\ IF ScrollStops(h, prev_height)
             THEN pc' = "scroll_done" /\ prev_height' = prev_height
             ELSE pc' = "scroll_loop" /\ prev_height' = h
    /\ UNCHANGED <<mainVars, cause, crawlVars, selectVars, priceVars>>

NextScroll == ScrollMeasure \/ ScrollIterate

SpecScroll == InitScroll /\ [][NextScroll]_vars

Last(q) == q[Len(q)]

\* C6 as stated: the loop ends at the first iteration whose new height is not
\* greater than the previous one, and runs on only while the heights grow.
C6_StopsWhenNotGreater ==
    /\ pc = "scroll_loop" =>
          \A n \in 1..(Len(heights) - 1) : heights[n + 1] > heights[n]
    /\ pc = "scroll_done" =>
          /\ heights[Len(heights)] <= heights[Len(heights) - 1]
          /\ \A n \in 1..(Len(heights) - 2) : heights[n + 1] > heights[n]

\* C6 as amended: the loop ends at the first iteration whose new height equals
\* the previous one, and runs on while each new height differs from the
\* previous one, greater or smaller; heights that never repeat never end it.
C6_StopsWhenEqual ==
    /\ pc = "scroll_loop" =>
          /\ \A n \in 1..(Len(heights) - 1) : heights[n + 1] # heights[n]
          /\ prev_height = Last(heights)
    /\ pc = "scroll_done" =>
          /\ Len(heights) >= 2
          /\ heights[Len(heights)] = heights[Len(heights) - 1]
          /\ \A n \in 1..(Len(heights) - 2) : heights[n + 1] # heights[n]

\* heights like [100, 250, 250]: the loop has ended right after the repeat
C6_Witness ==
    /\ pc = "scroll_done"
    /\ Len(heights) = 3
    /\ heights[1] < heights[2]
    /\ heights[2] = heights[3]

(***************************************************************************)
(* SpecSelect: the selector inference (lines 97-111) on the markup that    *)
(* page.content() returns.  The markup is a sequence of tags, a tag a name *)
(* and its attributes in the order they are written; the serialised DOM    *)
(* never repeats an attribute name inside a tag.  An attribute value is a   *)
(* sequence of tokens: the pieces of a path for href, and for class what   *)
(* split() returns (<<>> is a blank value).                                *)
(***************************************************************************)
TagNames == {"a", "area", "div"}
HrefValues == {<<"/item/", "1">>, <<"/search">>}
ClassValues == {<<"x">>, <<"y", "x">>, <<>>}
AttrSet ==
    [k : {"href"}, v : HrefValues] \cup [k : {"class"}, v : ClassValues]
       \cup [k : {"id"}, v : {<<"i">>}]

DistinctNames(attrs) ==
    \A m, n \in DOMAIN attrs : m # n => attrs[m].k # attrs[n].k

TagSet ==
    {t \in [name : TagNames, attrs : SeqsUpTo(AttrSet, MaxAttrs)] :
        DistinctNames(t.attrs)}

\* href="[^"]*?/item/[^"]*": the value contains the item-path marker
HasItemMarker(v) == \E n \in DOMAIN v : v[n] = "/item/"

\* <a[^>]+ : the tag name starts with the letter a
NameStartsWithA(name) == name \in {"a", "area"}

\* positions of the href="..../item/..." attributes of a tag
ItemHrefs(tag) ==
    {n \in DOMAIN tag.attrs : tag.attrs[n].k = "href" /\ HasItemMarker(tag.attrs[n].v)}

\* positions of the class="..." attributes of a tag
ClassAttrs(tag) == {n \in DOMAIN tag.attrs : tag.attrs[n].k = "class"}

\* line 100: the pattern matches inside one tag when a class attribute is
\* written after an href attribute that holds the marker
PatternMatches(tag) ==
    /\ NameStartsWithA(tag.name)
    /\ \E h \in ItemHrefs(tag), c \in ClassAttrs(tag) : h < c

\* the group the pattern captures: the greedy [^>]* reaches the last class
CapturedClass(tag) ==
    LET c == CHOOSE c \in ClassAttrs(tag) : \A d \in ClassAttrs(tag) : d <= c
    IN tag.attrs[c].v

RECURSIVE FindAllClasses(_)
\* lines 99-102 and 104-105: re.findall, each capture split into tokens, all
\* tokens in the order they are counted
FindAllClasses(tags) ==
    IF tags = <<>> THEN <<>>
    ELSE (IF PatternMatches(Head(tags)) THEN CapturedClass(Head(tags)) ELSE <<>>)
            \o FindAllClasses(Tail(tags))

\* lines 103-106: counter[cls]
CountOf(tokens, cls) == Cardinality({n \in DOMAIN tokens : tokens[n] = cls})

\* line 108: counter.most_common(1)[0][0]: the highest count, and among equal
\* counts the token counted first
TopClass(tokens) ==
    LET best == CHOOSE n \in DOMAIN tokens :
                   /\ \A m \in DOMAIN tokens :
                         CountOf(tokens, tokens[m]) <= CountOf(tokens, tokens[n])
                   /\ \A m \in 1..(n - 1) :
                         CountOf(tokens, tokens[m]) < CountOf(tokens, tokens[n])
    IN tokens[best]

FallbackSelector == <<"a[href*=/item/]">>
ClassSelector(cls) == <<"a.", cls>>

\* lines 107-111
InferSelector(tags) ==
    LET tokens == FindAllClasses(tags) IN
    IF tokens # <<>> THEN ClassSelector(TopClass(tokens)) ELSE FallbackSelector

InitSelect ==
    /\ pc = "select_start"
    /\ html \in SeqsUpTo(TagSet, MaxTags)
    /\ selector = <<>>
    /\ mainIdle /\ crawlIdle /\ scrollIdle /\ priceIdle

\* lines 98-111
SelectInfer ==
    /\ pc = "select_start"
    /\ selector' = InferSelector(html)
    /\ pc' = "select_done"
    /\ UNCHANGED <<html, mainVars, cause, crawlVars, scrollVars, priceVars>>

NextSelect == SelectInfer

SpecSelect == InitSelect /\ [][NextSelect]_vars

\* the anchors of the markup with an href that holds the marker
ItemAnchors == {n \in DOMAIN html : html[n].name = "a" /\ ItemHrefs(html[n]) # {}}
\* how often the class attributes of those anchors name the token
Tally(cls) ==
    Cardinality({<<n, c, m>> \in (DOMAIN html) \X (1..MaxAttrs + 1) \X (1..2) :
                    /\ n \in ItemAnchors
                    /\ c \in ClassAttrs(html[n])
                    /\ m \in DOMAIN html[n].attrs[c].v
                    /\ html[n].attrs[c].v[m] = cls})
ClassTokens == {"x", "y"}

\* C8: the class tokens of all anchors with an item href are tallied, whatever
\* the order of href and class inside the tag; the selector is the class
\* selector of a most frequent token, and it is the class-free fallback if and
\* only if no such anchor carries a class token.
C8_SelectorFromTally ==
    pc = "select_done" =>
       /\ selector = FallbackSelector <=> \A cls \in ClassTokens : Tally(cls) = 0
       /\ selector # FallbackSelector =>
             \E cls \in ClassTokens :
                /\ selector = ClassSelector(cls)
                /\ Tally(cls) > 0
                /\ \A other \in ClassTokens : Tally(other) <= Tally(cls)

(***************************************************************************)
(* SpecPrice: the price parser of line 171 on the texts line 131 produces  *)
(* (inner_text().strip(), so no blank at either end).                      *)
(***************************************************************************)
PriceChars == {"0", "1", "2", "¥", ",", " "}

InitPrice ==
    /\ pc = "price_start"
    /\ price_text \in {t \in SeqsUpTo(PriceChars, MaxPriceLen) : Strip(t) = t}
    /\ price_num = 0
    /\ mainIdle /\ crawlIdle /\ scrollIdle /\ selectIdle

\* line 171
ParsePrice ==
    /\ pc = "price_start"
    /\ \/ /\ ~PriceRaises(price_text)
          /\ price_num' = PriceNum(price_text)
          /\ pc' = "price_done"
          /\ cause' = cause
       \/ /\ PriceRaises(price_text)
          /\ price_num' = price_num
          /\ Raise("ValueError")
    /\ UNCHANGED <<price_text, mainVars, crawlVars, scrollVars, selectVars>>

NextPrice == ParsePrice

SpecPrice == InitPrice /\ [][NextPrice]_vars

RECURSIVE DigitString(_)
\* the number the digit characters of a text write, 0 when it has none
DigitString(t) ==
    IF t = <<>> THEN 0
    ELSE IF Last(t) \in DigitChars
         THEN DigitString(SubSeq(t, 1, Len(t) - 1)) * 10 + DigitVal(Last(t))
         ELSE DigitString(SubSeq(t, 1, Len(t) - 1))

\* C4: price parsing is total: every price text gets the integer its digits
\* write, 0 when it is empty or has no digit, and no text raises an error.
C4_PriceParsingTotal ==
    /\ pc # "aborted"
    /\ pc = "price_done" => price_num = DigitString(price_text)

====
